---------------------------- MODULE Spec2Model ----------------------------
(* Grouping engine of the Geographical Entities API (main.py):            *)
(* load-groups, update-group and update_total_citations over the          *)
(* locations table.  Text is modelled as sequences of one-character       *)
(* strings so that splitting, trimming and name-type parsing are          *)
(* computed as the code computes them.                                    *)
EXTENDS Integers, Sequences, FiniteSets, TLC

VARIABLES
    store,    \* committed rows of the locations table, by id
    last,     \* the last completed request: its input, pre-state and response
    nops,     \* number of requests served so far
    pc,       \* position of the request in progress (step-wise specification)
    req       \* the request in progress: its session and local variables

vars == <<store, last, nops, pc, req>>

(***************************************************************************)
(* Bounds                                                                  *)
(***************************************************************************)
MaxOps == 2        \* requests per run
MaxLineLen == 5    \* characters per line given to smart_split on its own
MaxLines == 2      \* lines per uploaded manifest

(***************************************************************************)
(* Values                                                                  *)
(***************************************************************************)
None == 0          \* NULL; ids are autoincrement (>= 1), citations are > 0

Ids == 1 .. 4      \* ids of the ingested rows
MissingId == 5     \* an id no row has

\* (name, type) of the ingested rows; unique by _name_type_uc
Names == <<  <<"A">>, <<"B">>, <<"C">>, <<"D", "-", "e">>  >>
Types == <<  <<"c">>, <<"c">>, <<"c">>, <<"c">>  >>

\* citations of the ingested rows (load_data keeps only values > 0)
CitationProfiles ==
    { <<10, 5, 3, 20>>,     \* A, B, C, D of the end-to-end example
      <<5, 10, 10, 5>> }    \* ties, and a second row heavier than the first

Max(a, b) == IF a > b THEN a ELSE b

(***************************************************************************)
(* Text helpers                                                            *)
(***************************************************************************)
IsSpace(ch) == ch \in {" ", "\t"}

RECURSIVE LStrip(_)
LStrip(s) == IF s # <<>> /\ IsSpace(Head(s)) THEN LStrip(Tail(s)) ELSE s

RECURSIVE RStrip(_)
RStrip(s) ==
    IF s # <<>> /\ IsSpace(s[Len(s)]) THEN RStrip(SubSeq(s, 1, Len(s) - 1))
    ELSE s

\* str.strip()
Strip(s) == RStrip(LStrip(s))

\* variant: depth is decremented without the floor at 0
RECURSIVE SplitLoop_NoClamp(_, _, _, _, _)
SplitLoop_NoClamp(line, i, parts, current, depth) ==
    IF i > Len(line)
    THEN LET part == Strip(current)
         IN  IF part # <<>> THEN Append(parts, part) ELSE parts
    ELSE LET char == line[i]
         IN  IF char = "," /\ depth = 0
             THEN LET part == Strip(current)
                  IN  SplitLoop_NoClamp(line, i + 1,
                                        IF part # <<>> THEN Append(parts, part)
                                                       ELSE parts,
                                        <<>>, depth)
             ELSE SplitLoop_NoClamp(line, i + 1, parts, Append(current, char),
                                    IF char = "(" THEN depth + 1
                                    ELSE IF char = ")" THEN depth - 1
                                    ELSE depth)

\* the loop of smart_split from character i on
RECURSIVE SplitLoop(_, _, _, _, _)
SplitLoop(line, i, parts, current, depth) ==
    IF i > Len(line)
    THEN LET part == Strip(current)
         IN  IF part # <<>> THEN Append(parts, part) ELSE parts
    ELSE LET char == line[i]
         IN  IF char = "," /\ depth = 0
             THEN LET part == Strip(current)
                  IN  SplitLoop(line, i + 1,
                                IF part # <<>> THEN Append(parts, part)
                                               ELSE parts,
                                <<>>, depth)
             ELSE SplitLoop(line, i + 1, parts, Append(current, char),
                            IF char = "(" THEN depth + 1
                            ELSE IF char = ")" THEN Max(depth - 1, 0)
                            ELSE depth)

smart_split(line) == SplitLoop(line, 1, <<>>, <<>>, 0)

\* "-" in ref
HasHyphen(ref) == \E i \in 1 .. Len(ref) : ref[i] = "-"

\* ref.rsplit("-", 1): split at the last hyphen
RSplit(ref) ==
    LET k == CHOOSE i \in 1 .. Len(ref) :
                 /\ ref[i] = "-"
                 /\ \A j \in (i + 1) .. Len(ref) : ref[j] # "-"
    IN  [name |-> SubSeq(ref, 1, k - 1), type |-> SubSeq(ref, k + 1, Len(ref))]

(***************************************************************************)
(* Rows and queries                                                        *)
(***************************************************************************)
\* a row as load_data inserts it
NewLocation(id, value) ==
    [name |-> Names[id], type |-> Types[id], citations |-> value,
     total_citations |-> value, group |-> None]

Ingested(profile) == [id \in Ids |-> NewLocation(id, profile[id])]

\* variant: the lookup filters on the name alone
QueryByNameType_NameOnly(db, name, type) ==
    LET hits == {id \in DOMAIN db : db[id].name = name}
    IN  IF hits = {} THEN None ELSE CHOOSE id \in hits : TRUE

\* db.query(Location).filter(Location.name == name, Location.type == type_).first()
QueryByNameType(db, name, type) ==
    LET hits == {id \in DOMAIN db : db[id].name = name /\ db[id].type = type}
    IN  IF hits = {} THEN None ELSE CHOOSE id \in hits : TRUE

\* db.query(Location).filter(Location.group == group_id).all()
QueryByGroup(db, group_id) == {id \in DOMAIN db : db[id].group = group_id}

RECURSIVE SumCitations(_, _)
SumCitations(db, members) ==
    IF members = {} THEN 0
    ELSE LET m == CHOOSE x \in members : TRUE
         IN  db[m].citations + SumCitations(db, members \ {m})

get_location_by_ref(db, ref, role, errors) ==
    IF ~HasHyphen(ref)
    THEN [loc |-> None,
          errors |-> Append(errors, [msg |-> "Invalid format", role |-> role,
                                     ref |-> ref])]
    ELSE LET nt == RSplit(ref)
             loc == QueryByNameType(db, nt.name, nt.type)
         IN  IF loc = None
             THEN [loc |-> None,
                   errors |-> Append(errors, [msg |-> "not found in DB",
                                              role |-> role, ref |-> ref])]
             ELSE [loc |-> loc, errors |-> errors]

\* variant: the sum is written to citations instead of total_citations
update_total_citations_WritesCitations(db, group_id) ==
    LET members == QueryByGroup(db, group_id)
        total == SumCitations(db, members)
    IN  [db |-> IF group_id \in DOMAIN db
                THEN [db EXCEPT ![group_id].citations =
                                    total + db[group_id].citations]
                ELSE db,
         total |-> total]

\* variant: a missing root is detected first and 0 is returned
update_total_citations_EarlyReturn(db, group_id) ==
    IF group_id \notin DOMAIN db THEN [db |-> db, total |-> 0]
    ELSE LET members == QueryByGroup(db, group_id)
             total == SumCitations(db, members)
         IN  [db |-> [db EXCEPT ![group_id].total_citations =
                                    total + db[group_id].citations],
              total |-> total]

\* variant: the member sum is added to the total already stored
update_total_citations_Additive(db, group_id) ==
    LET members == QueryByGroup(db, group_id)
        total == SumCitations(db, members)
    IN  [db |-> IF group_id \in DOMAIN db
                THEN [db EXCEPT ![group_id].total_citations = @ + total]
                ELSE db,
         total |-> total]

\* variant: the root's own citations are left out of its total
update_total_citations_MembersOnly(db, group_id) ==
    LET members == QueryByGroup(db, group_id)
        total == SumCitations(db, members)
    IN  [db |-> IF group_id \in DOMAIN db
                THEN [db EXCEPT ![group_id].total_citations = total]
                ELSE db,
         total |-> total]

update_total_citations(db, group_id) ==
    LET members == QueryByGroup(db, group_id)
        total == SumCitations(db, members)
    IN  [db |-> IF group_id \in DOMAIN db
                THEN [db EXCEPT ![group_id].total_citations =
                                    total + db[group_id].citations]
                ELSE db,
         total |-> total]

(***************************************************************************)
(* Inputs                                                                  *)
(***************************************************************************)
Sep == <<",", " ">>
RefA == <<"A", "-", "c">>
RefB == <<"B", "-", "c">>
RefC == <<"C", "-", "c">>
RefD == <<"D", "-", "e", "-", "c">>

\* manifest lines offered to load-groups
LineCatalogue ==
    { RefA \o Sep \o RefB \o Sep \o RefC,              \* "A-c, B-c, C-c"
      <<" ">> \o RefC \o <<",">> \o RefD \o <<",">> \o RefB \o <<" ">>,
                                                        \* " C-c,D-e-c,B-c "
      RefD \o Sep \o RefA,                              \* "D-e-c, A-c"
      <<"A", "-", "r">> \o Sep \o RefB \o Sep \o RefC,   \* leader not in DB
      <<"A">> \o Sep \o RefB,                           \* leader without "-"
      RefA \o Sep \o RefA \o Sep \o <<"Z", "-", "c">> \o Sep \o RefD,
                                                        \* self, unknown, D
      RefA \o Sep \o RefA \o Sep \o <<"Z", "-", "c">>,   \* self, unknown
      RefA,                                             \* a single field
      <<" ", " ">> }                                    \* a blank line

\* smart_split of every line on offer, computed once
SplitTable ==
    [line \in {Strip(l) : l \in LineCatalogue} |-> smart_split(line)]

\* smart_split(line), looked up when the line is on offer
SplitOf(line) ==
    IF line \in DOMAIN SplitTable THEN SplitTable[line] ELSE smart_split(line)

Manifests ==
    UNION { [1 .. n -> LineCatalogue] : n \in 1 .. MaxLines }

Filenames == { <<"g", ".", "t", "x", "t">>, <<"g", ".", "c", "s", "v">> }

RequestIds == Ids \cup {MissingId}

(***************************************************************************)
(* load-groups                                                             *)
(***************************************************************************)
\* file.filename.endswith(suffix)
EndsWith(s, suffix) ==
    /\ Len(s) >= Len(suffix)
    /\ SubSeq(s, Len(s) - Len(suffix) + 1, Len(s)) = suffix

\* [line.strip() for line in content.splitlines() if line.strip()];
\* content is given as the sequence of its lines
RECURSIVE NonBlankLines(_)
NonBlankLines(content) ==
    IF content = <<>> THEN <<>>
    ELSE LET line == Strip(Head(content))
         IN  IF line # <<>> THEN <<line>> \o NonBlankLines(Tail(content))
                            ELSE NonBlankLines(Tail(content))

\* variant: the member loop stops at the first reference that fails
RECURSIVE MemberLoop_BreakOnError(_, _, _, _)
MemberLoop_BreakOnError(st, leader, member_refs, i) ==
    IF i > Len(member_refs) THEN st
    ELSE LET r == get_location_by_ref(st.db, member_refs[i], "member", st.errors)
             st1 == [st EXCEPT !.errors = r.errors]
         IN  IF r.loc = None THEN st1
             ELSE IF r.loc # leader
             THEN MemberLoop_BreakOnError(
                      [st1 EXCEPT !.db[r.loc].group = leader,
                                  !.updated_count = @ + 1],
                      leader, member_refs, i + 1)
             ELSE MemberLoop_BreakOnError(st1, leader, member_refs, i + 1)

\* variant: a member that is the leader itself is grouped like any other
RECURSIVE MemberLoop_NoSelfGuard(_, _, _, _)
MemberLoop_NoSelfGuard(st, leader, member_refs, i) ==
    IF i > Len(member_refs) THEN st
    ELSE LET r == get_location_by_ref(st.db, member_refs[i], "member", st.errors)
             st1 == [st EXCEPT !.errors = r.errors]
         IN  IF r.loc = None
             THEN MemberLoop_NoSelfGuard(st1, leader, member_refs, i + 1)
             ELSE MemberLoop_NoSelfGuard(
                      [st1 EXCEPT !.db[r.loc].group = leader,
                                  !.updated_count = @ + 1],
                      leader, member_refs, i + 1)

\* the loop over member_refs from index i on; st holds db, updated_count,
\* errors and leader_ids
RECURSIVE MemberLoop(_, _, _, _)
MemberLoop(st, leader, member_refs, i) ==
    IF i > Len(member_refs) THEN st
    ELSE LET r == get_location_by_ref(st.db, member_refs[i], "member", st.errors)
             st1 == [st EXCEPT !.errors = r.errors]
         IN  IF r.loc = None
             THEN MemberLoop(st1, leader, member_refs, i + 1)
             ELSE IF r.loc # leader
             THEN MemberLoop([st1 EXCEPT !.db[r.loc].group = leader,
                                         !.updated_count = @ + 1],
                             leader, member_refs, i + 1)
             ELSE MemberLoop(st1, leader, member_refs, i + 1)

\* variant: the leader is remembered only when a member was updated
ProcessLine_LeaderIfUpdated(st, line) ==
    LET parts == smart_split(line)
    IN  IF Len(parts) < 2
        THEN [st EXCEPT !.errors = Append(@, [msg |-> "Invalid group line",
                                              role |-> "line", ref |-> line])]
        ELSE LET r == get_location_by_ref(st.db, parts[1], "leader", st.errors)
                 st1 == [st EXCEPT !.errors = r.errors]
             IN  IF r.loc = None THEN st1
                 ELSE LET st2 == MemberLoop(st1, r.loc, Tail(parts), 1)
                      IN  IF st2.updated_count > st1.updated_count
                          THEN [st2 EXCEPT !.leader_ids = @ \cup {r.loc}]
                          ELSE st2

\* one iteration of "for line in lines"
ProcessLine(st, line) ==
    LET parts == SplitOf(line)
    IN  IF Len(parts) < 2
        THEN [st EXCEPT !.errors = Append(@, [msg |-> "Invalid group line",
                                              role |-> "line", ref |-> line])]
        ELSE LET r == get_location_by_ref(st.db, parts[1], "leader", st.errors)
                 st1 == [st EXCEPT !.errors = r.errors]
             IN  IF r.loc = None THEN st1
                 ELSE [MemberLoop(st1, r.loc, Tail(parts), 1)
                          EXCEPT !.leader_ids = @ \cup {r.loc}]

\* the states of the line loop: before the first line and after each line
RECURSIVE LineLoop(_, _)
LineLoop(st, lines) ==
    IF lines = <<>> THEN <<st>>
    ELSE <<st>> \o LineLoop(ProcessLine(st, Head(lines)), Tail(lines))

\* "for gid in leader_ids: update_total_citations(db, gid)"; each call
\* writes only the total of its own gid, so the order does not matter
RECURSIVE RecomputeAll(_, _)
RecomputeAll(db, gids) ==
    IF gids = {} THEN db
    ELSE LET gid == CHOOSE x \in gids : TRUE
         IN  RecomputeAll(update_total_citations(db, gid).db, gids \ {gid})

TxtSuffix == <<".", "t", "x", "t">>

load_groups(db, filename, content) ==
    IF ~EndsWith(filename, TxtSuffix)
    THEN [status |-> 400, db |-> db, updated_members |-> 0, errors |-> <<>>,
          lines |-> <<>>, trace |-> <<>>]
    ELSE LET lines == NonBlankLines(content)
             trace == LineLoop([db |-> db, updated_count |-> 0,
                                errors |-> <<>>, leader_ids |-> {}], lines)
             st == trace[Len(trace)]
         IN  [status |-> 200,
              db |-> RecomputeAll(st.db, st.leader_ids),
              updated_members |-> st.updated_count,
              errors |-> st.errors,
              lines |-> lines,
              trace |-> trace]

(***************************************************************************)
(* update-group                                                            *)
(***************************************************************************)
\* variant: the comparison is <= instead of <
SelectFG_TieToId1(db, id1, id2) ==
    IF db[id1].citations <= db[id2].citations
    THEN [f |-> id1, g |-> id2]
    ELSE [f |-> id2, g |-> id1]

\* "Determine f (fewer citations) and g (greater citations)"
SelectFG(db, id1, id2) ==
    IF db[id1].citations < db[id2].citations
    THEN [f |-> id1, g |-> id2]
    ELSE [f |-> id2, g |-> id1]

\* variant: the winner is always taken as the root
NewGroupId_WinnerOnly(db, g) == g

\* new_group_id
NewGroupId(db, g) == IF db[g].group # None THEN db[g].group ELSE g

\* variant: the rows pointing at f are not re-pointed
MergePointers_NoRepoint(db, f, new_group_id) ==
    [db EXCEPT ![f].group = new_group_id, ![f].total_citations = None]

\* the writes up to "Commit intermediate changes"
MergePointers(db, f, new_group_id) ==
    LET repointed == [id \in DOMAIN db |->
                         IF db[id].group = f
                         THEN [db[id] EXCEPT !.group = new_group_id]
                         ELSE db[id]]
    IN  [repointed EXCEPT ![f].group = new_group_id,
                          ![f].total_citations = None]

\* variant: the guard is "not loc1 and not loc2"; with one row missing the
\* comparison of citations fails on None and the request ends in a 500
update_group_AndGuard(db, id1, id2) ==
    IF id1 \notin DOMAIN db /\ id2 \notin DOMAIN db
    THEN [status |-> 404, db |-> db, f |-> None, g |-> None,
          old_group_id |-> None, new_group_id |-> None,
          old_group_updated |-> FALSE]
    ELSE IF id1 \notin DOMAIN db \/ id2 \notin DOMAIN db
    THEN [status |-> 500, db |-> db, f |-> None, g |-> None,
          old_group_id |-> None, new_group_id |-> None,
          old_group_updated |-> FALSE]
    ELSE LET fg == SelectFG(db, id1, id2)
             old_group_id == db[fg.f].group
             new_group_id == NewGroupId(db, fg.g)
             db1 == MergePointers(db, fg.f, new_group_id)
             db2 == update_total_citations(db1, new_group_id).db
             db3 == IF old_group_id # None
                    THEN update_total_citations(db2, old_group_id).db
                    ELSE db2
         IN  [status |-> 200, db |-> db3, f |-> fg.f, g |-> fg.g,
              old_group_id |-> old_group_id, new_group_id |-> new_group_id,
              old_group_updated |-> (old_group_id # None)]

update_group(db, id1, id2) ==
    IF id1 \notin DOMAIN db \/ id2 \notin DOMAIN db
    THEN [status |-> 404, db |-> db, f |-> None, g |-> None,
          old_group_id |-> None, new_group_id |-> None,
          old_group_updated |-> FALSE]
    ELSE LET fg == SelectFG(db, id1, id2)
             old_group_id == db[fg.f].group
             new_group_id == NewGroupId(db, fg.g)
             db1 == MergePointers(db, fg.f, new_group_id)
             db2 == update_total_citations(db1, new_group_id).db
             db3 == IF old_group_id # None
                    THEN update_total_citations(db2, old_group_id).db
                    ELSE db2
         IN  [status |-> 200, db |-> db3, f |-> fg.f, g |-> fg.g,
              old_group_id |-> old_group_id, new_group_id |-> new_group_id,
              old_group_updated |-> (old_group_id # None)]

(***************************************************************************)
(* Specification: every request runs to completion                         *)
(***************************************************************************)
NoRequest == [op |-> "none"]

Init ==
    /\ \E profile \in CitationProfiles : store = Ingested(profile)
    /\ last = [op |-> "none"]
    /\ nops = 0
    /\ pc = "idle"
    /\ req = NoRequest

LoadGroups ==
    /\ pc = "idle"
    /\ nops < MaxOps
    /\ \E filename \in {n \in Filenames : EndsWith(n, TxtSuffix)},
          content \in Manifests :
          LET res == load_groups(store, filename, content)
          IN  /\ res.status = 200
              /\ store' = res.db
              /\ last' = [op |-> "load_groups", pre |-> store,
                          filename |-> filename, content |-> content,
                          res |-> res]
    /\ nops' = nops + 1
    /\ pc' = "responded"
    /\ UNCHANGED req

LoadGroupsBadFile ==
    /\ pc = "idle"
    /\ nops < MaxOps
    /\ \E filename \in {n \in Filenames : ~EndsWith(n, TxtSuffix)} :
          LET res == load_groups(store, filename, <<>>)
          IN  /\ res.status = 400
              /\ store' = res.db
              /\ last' = [op |-> "load_groups", pre |-> store,
                          filename |-> filename, content |-> <<>>,
                          res |-> res]
    /\ nops' = nops + 1
    /\ pc' = "responded"
    /\ UNCHANGED req

UpdateGroup ==
    /\ pc = "idle"
    /\ nops < MaxOps
    /\ \E id1 \in RequestIds, id2 \in RequestIds :
          LET res == update_group(store, id1, id2)
          IN  /\ store' = res.db
              /\ last' = [op |-> "update_group", pre |-> store,
                          id1 |-> id1, id2 |-> id2, res |-> res]
    /\ nops' = nops + 1
    /\ pc' = "responded"
    /\ UNCHANGED req

\* the response has left the server: nothing of the request remains
Deliver ==
    /\ pc = "responded"
    /\ pc' = "idle"
    /\ last' = [op |-> "none"]
    /\ UNCHANGED <<store, nops, req>>

Next == LoadGroups \/ LoadGroupsBadFile \/ UpdateGroup \/ Deliver

Spec == Init /\ [][Next]_vars

(***************************************************************************)
(* Step-wise specification: a request advances from one commit to the      *)
(* next, and the process may die between any two steps.  store is what is  *)
(* committed; req.sess is what the open session has written so far.        *)
(***************************************************************************)
\* update_group up to the writes of f: nothing is committed yet
UG_Begin ==
    /\ pc = "idle"
    /\ nops < MaxOps
    /\ \E id1 \in RequestIds, id2 \in RequestIds :
          IF id1 \notin DOMAIN store \/ id2 \notin DOMAIN store
          THEN /\ last' = [op |-> "update_group", pre |-> store, id1 |-> id1,
                           id2 |-> id2, res |-> update_group(store, id1, id2)]
               /\ nops' = nops + 1
               /\ UNCHANGED <<store, pc, req>>
          ELSE LET fg == SelectFG(store, id1, id2)
                   new_group_id == NewGroupId(store, fg.g)
               IN  /\ req' = [op |-> "update_group", pre |-> store,
                              id1 |-> id1, id2 |-> id2, f |-> fg.f, g |-> fg.g,
                              old_group_id |-> store[fg.f].group,
                              new_group_id |-> new_group_id,
                              sess |-> MergePointers(store, fg.f, new_group_id)]
                   /\ pc' = "ug_commit"
                   /\ UNCHANGED <<store, last, nops>>

\* "Commit intermediate changes"
UG_Commit ==
    /\ pc = "ug_commit"
    /\ store' = req.sess
    /\ pc' = "ug_total_new"
    /\ UNCHANGED <<last, nops, req>>

\* update_total_citations(db, new_group_id), with its commit
UG_TotalNew ==
    /\ pc = "ug_total_new"
    /\ store' = update_total_citations(store, req.new_group_id).db
    /\ pc' = IF req.old_group_id # None THEN "ug_total_old" ELSE "ug_return"
    /\ UNCHANGED <<last, nops, req>>

\* update_total_citations(db, old_group_id), with its commit
UG_TotalOld ==
    /\ pc = "ug_total_old"
    /\ store' = update_total_citations(store, req.old_group_id).db
    /\ pc' = "ug_return"
    /\ UNCHANGED <<last, nops, req>>

UG_Return ==
    /\ pc = "ug_return"
    /\ last' = [op |-> "update_group", pre |-> req.pre, id1 |-> req.id1,
                id2 |-> req.id2,
                res |-> [status |-> 200, db |-> store, f |-> req.f,
                         g |-> req.g, old_group_id |-> req.old_group_id,
                         new_group_id |-> req.new_group_id,
                         old_group_updated |-> (req.old_group_id # None)]]
    /\ nops' = nops + 1
    /\ pc' = "idle"
    /\ req' = NoRequest
    /\ UNCHANGED store

\* load_groups up to the end of the line loop: nothing is committed yet
LG_Begin ==
    /\ pc = "idle"
    /\ nops < MaxOps
    /\ \E filename \in Filenames, content \in Manifests :
          IF ~EndsWith(filename, TxtSuffix)
          THEN /\ last' = [op |-> "load_groups", pre |-> store,
                           filename |-> filename, content |-> <<>>,
                           res |-> load_groups(store, filename, <<>>)]
               /\ nops' = nops + 1
               /\ UNCHANGED <<store, pc, req>>
          ELSE LET lines == NonBlankLines(content)
                   trace == LineLoop([db |-> store, updated_count |-> 0,
                                      errors |-> <<>>, leader_ids |-> {}],
                                     lines)
                   st == trace[Len(trace)]
               IN  /\ req' = [op |-> "load_groups", pre |-> store,
                              filename |-> filename, content |-> content,
                              lines |-> lines, trace |-> trace,
                              sess |-> st.db, pending |-> st.leader_ids]
                   /\ pc' = "lg_commit"
                   /\ UNCHANGED <<store, last, nops>>

\* db.commit() after the line loop
LG_Commit ==
    /\ pc = "lg_commit"
    /\ store' = req.sess
    /\ pc' = "lg_totals"
    /\ UNCHANGED <<last, nops, req>>

\* one iteration of "for gid in leader_ids", with its commit; a set is
\* iterated in an order the code does not fix
LG_Total ==
    /\ pc = "lg_totals"
    /\ \E gid \in req.pending :
          /\ store' = update_total_citations(store, gid).db
          /\ req' = [req EXCEPT !.pending = @ \ {gid}]
    /\ UNCHANGED <<last, nops, pc>>

LG_Return ==
    /\ pc = "lg_totals"
    /\ req.pending = {}
    /\ LET st == req.trace[Len(req.trace)]
       IN  last' = [op |-> "load_groups", pre |-> req.pre,
                    filename |-> req.filename, content |-> req.content,
                    res |-> [status |-> 200, db |-> store,
                             updated_members |-> st.updated_count,
                             errors |-> st.errors, lines |-> req.lines,
                             trace |-> req.trace]]
    /\ nops' = nops + 1
    /\ pc' = "idle"
    /\ req' = NoRequest
    /\ UNCHANGED store

\* what the request in progress leaves when it runs to completion
Outcome(r) ==
    IF r.op = "update_group" THEN update_group(r.pre, r.id1, r.id2).db
    ELSE load_groups(r.pre, r.filename, r.content).db

\* the process dies: the session and its uncommitted writes are lost
Crash ==
    /\ pc # "idle"
    /\ last' = [op |-> "crash", during |-> req.op, at |-> pc,
                pre |-> req.pre, post |-> Outcome(req)]
    /\ nops' = nops + 1
    /\ pc' = "idle"
    /\ req' = NoRequest
    /\ UNCHANGED store

NextSteps ==
    \/ UG_Begin \/ UG_Commit \/ UG_TotalNew \/ UG_TotalOld \/ UG_Return
    \/ LG_Begin \/ LG_Commit \/ LG_Total \/ LG_Return
    \/ Crash

SpecSteps == Init /\ [][NextSteps]_vars

(***************************************************************************)
(* Specification of update_total_citations on its own: it is applied to    *)
(* the table the requests have produced, or to that table with one row     *)
(* gone (no foreign key ties group to an existing id), and its result is   *)
(* recorded in last.                                                       *)
(***************************************************************************)
Tables(db) == {db} \cup { [id \in DOMAIN db \ {gone} |-> db[id]] : gone \in DOMAIN db }

Recompute ==
    /\ pc = "idle"
    /\ nops < MaxOps
    /\ \E db \in Tables(store), group_id \in RequestIds :
          last' = [op |-> "update_total_citations", pre |-> db,
                   group_id |-> group_id,
                   res |-> update_total_citations(db, group_id)]
    /\ nops' = nops + 1
    /\ pc' = "responded"
    /\ UNCHANGED <<store, req>>

NextRecompute == LoadGroups \/ UpdateGroup \/ Recompute \/ Deliver

SpecRecompute == Init /\ [][NextRecompute]_vars

(***************************************************************************)
(* Specification of smart_split on its own: it is applied to every line    *)
(* of at most MaxLineLen characters and its result is recorded in last.    *)
(***************************************************************************)
SplitAlphabet == {"a", " ", ",", "(", ")"}

SplitLines == UNION { [1 .. n -> SplitAlphabet] : n \in 0 .. MaxLineLen }

Split ==
    /\ pc = "idle"
    /\ last.op = "none"
    /\ \E line \in SplitLines :
          last' = [op |-> "smart_split", line |-> line,
                   parts |-> smart_split(line)]
    /\ UNCHANGED <<store, nops, pc, req>>

SpecSplit == Init /\ [][Split]_vars

(***************************************************************************)
(* Specification of merges alone: only update-group requests, each for     *)
(* two different existing rows.                                            *)
(***************************************************************************)
MergeDistinct ==
    /\ pc = "idle"
    /\ nops < MaxOps
    /\ \E id1 \in Ids :
        \E id2 \in Ids \ {id1} :
          LET res == update_group(store, id1, id2)
          IN  /\ store' = res.db
              /\ last' = [op |-> "update_group", pre |-> store,
                          id1 |-> id1, id2 |-> id2, res |-> res]
    /\ nops' = nops + 1
    /\ pc' = "responded"
    /\ UNCHANGED req

SpecMerges == Init /\ [][MergeDistinct \/ Deliver]_vars

(***************************************************************************)
(* Properties                                                              *)
(***************************************************************************)
Merged == last.op = "update_group" /\ last.res.status = 200
Loaded == last.op = "load_groups" /\ last.res.status = 200

\* members(r): the rows whose group equals r
MembersOf(db, r) == {m \in DOMAIN db : db[m].group = r}

RECURSIVE CitationSum(_, _)
CitationSum(db, S) ==
    IF S = {} THEN 0
    ELSE LET m == CHOOSE x \in S : TRUE
         IN  db[m].citations + CitationSum(db, S \ {m})

\* C1: every row without a group has total_citations equal to its own
\* citations plus the citations of the rows whose group is its id.
C1_AggregateInvariant ==
    \A r \in DOMAIN store :
        store[r].group = None =>
            store[r].total_citations =
                store[r].citations + CitationSum(store, MembersOf(store, r))

\* following group from x reaches a row without group in at most n steps
RECURSIVE ChainEnds(_, _, _)
ChainEnds(db, x, n) ==
    IF db[x].group = None THEN TRUE
    ELSE IF n = 0 \/ db[x].group \notin DOMAIN db THEN FALSE
    ELSE ChainEnds(db, db[x].group, n - 1)

\* C2: from every row, following group repeatedly ends at a row whose
\* group is absent (the group relation has no cycle).
C2_NoCycles ==
    \A x \in DOMAIN store : ChainEnds(store, x, Cardinality(DOMAIN store))

\* C3: a group that is set is the id of an existing row other than the
\* row itself.
C3_NoSelfLoop ==
    \A x \in DOMAIN store :
        store[x].group # None =>
            store[x].group \in DOMAIN store /\ store[x].group # x

\* the target the loser must get, from the winner's row before the call
TargetOf(db, winner) ==
    IF db[winner].group # None THEN db[winner].group ELSE winner

\* C4 as stated: fewer citations lose, and on equal citations id1 loses;
\* the response names (loser, winner) and the loser's group is set.
C4_TieBreakAsStated ==
    Merged =>
        LET c1 == last.pre[last.id1].citations
            c2 == last.pre[last.id2].citations
            loser == IF c1 <= c2 THEN last.id1 ELSE last.id2
            winner == IF c1 <= c2 THEN last.id2 ELSE last.id1
        IN  /\ last.res.f = loser
            /\ last.res.g = winner
            /\ store[loser].group = TargetOf(last.pre, winner)

\* C4 (amended): fewer citations lose, and on equal citations id2 loses
\* and id1 wins; the response names (loser, winner) and the loser's group
\* is set.
C4_TieBreak ==
    Merged =>
        LET c1 == last.pre[last.id1].citations
            c2 == last.pre[last.id2].citations
            loser == IF c1 < c2 THEN last.id1 ELSE last.id2
            winner == IF c1 < c2 THEN last.id2 ELSE last.id1
        IN  /\ last.res.f = loser
            /\ last.res.g = winner
            /\ store[loser].group = TargetOf(last.pre, winner)

\* a merge of two different rows with equal citations has completed
C4_Witness ==
    /\ Merged
    /\ last.id1 # last.id2
    /\ last.pre[last.id1].citations = last.pre[last.id2].citations
    /\ last.res.f = last.id2
    /\ store[last.id2].group = TargetOf(last.pre, last.id1)

\* C5: after a merge, f.group is the group g had before the call if it
\* had one, and g.id otherwise.
C5_MergeTarget ==
    Merged =>
        store[last.res.f].group =
            IF last.pre[last.res.g].group # None
            THEN last.pre[last.res.g].group
            ELSE last.res.g

\* a merge whose winner belonged to the group of a third row
C5_Witness ==
    /\ Merged
    /\ last.pre[last.res.g].group \notin {None, last.res.g, last.res.f}
    /\ store[last.res.f].group = last.pre[last.res.g].group

\* the store of the end-to-end example before its merge: B and C grouped
\* under A (total 18), D on its own
ExampleStore(db) ==
    /\ db[1].citations = 10 /\ db[2].citations = 5
    /\ db[3].citations = 3 /\ db[4].citations = 20
    /\ db[1].group = None /\ db[1].total_citations = 18
    /\ db[2].group = 1 /\ db[3].group = 1
    /\ db[4].group = None /\ db[4].total_citations = 20

\* C6: after a merge, the row new_group_id has total_citations equal to
\* its own citations plus the citations of exactly the rows whose group is
\* new_group_id, among them f and every former direct member of f; in the
\* end-to-end example the total of D is 38.
C6_NewRootTotal ==
    Merged =>
        LET root == TargetOf(last.pre, last.res.g)
        IN  /\ store[root].total_citations =
                   store[root].citations
                       + CitationSum(store, MembersOf(store, root))
            /\ last.res.f \in MembersOf(store, root)
            /\ MembersOf(last.pre, last.res.f) \subseteq MembersOf(store, root)
            /\ (ExampleStore(last.pre) /\ last.id1 = 1 /\ last.id2 = 4)
                   => store[4].total_citations = 38

\* the merge of the end-to-end example has completed
C6_Witness ==
    /\ Merged
    /\ ExampleStore(last.pre) /\ last.id1 = 1 /\ last.id2 = 4
    /\ store[4].total_citations = 38
    /\ MembersOf(store, 4) = {1, 2, 3}

\* C7 as stated: when citations(id1) < citations(id2), the total of id2
\* after the merge is its citations plus those of id1 plus those of the
\* other members id2 had before, in every pre-state.
C7_WinnerTotalAsStated ==
    (Merged /\ last.pre[last.id1].citations < last.pre[last.id2].citations)
        => store[last.id2].total_citations =
               last.pre[last.id2].citations
                   + last.pre[last.id1].citations
                   + CitationSum(last.pre, MembersOf(last.pre, last.id2)
                                              \ {last.id1})

\* C7 (amended): when citations(id1) < citations(id2) and id2 has no
\* group before the merge, the total of id2 after the merge is its
\* citations plus those of id1, of the members id2 had before and of the
\* members id1 had before, each row counted once.
C7_WinnerTotal ==
    (/\ Merged
     /\ last.pre[last.id1].citations < last.pre[last.id2].citations
     /\ last.pre[last.id2].group = None)
        => store[last.id2].total_citations =
               last.pre[last.id2].citations
                   + CitationSum(last.pre,
                                 {last.id1}
                                     \cup MembersOf(last.pre, last.id2)
                                     \cup MembersOf(last.pre, last.id1))

\* a merge into an ungrouped id2 whose loser id1 had members of its own
C7_Witness ==
    /\ Merged
    /\ last.pre[last.id1].citations < last.pre[last.id2].citations
    /\ last.pre[last.id2].group = None
    /\ MembersOf(last.pre, last.id1) \ {last.id1} # {}
    /\ store[last.id2].total_citations >
           last.pre[last.id2].citations + last.pre[last.id1].citations

\* C8: after a merge the loser f has no total_citations.
C8_LoserCleared ==
    Merged => store[last.res.f].total_citations = None

\* C9: a request that dies part-way leaves the committed table either as
\* it was before the request or as the completed request leaves it.
C9_Atomicity ==
    last.op = "crash" => store \in {last.pre, last.post}

\* the reference a row is addressed by: name-type
RefOf(id) == Names[id] \o <<"-">> \o Types[id]
Resolvable(ref) == \E id \in Ids : RefOf(id) = ref
RowOf(ref) == CHOOSE id \in Ids : RefOf(id) = ref

Groups(db) == [id \in DOMAIN db |-> db[id].group]

\* C10: a manifest line whose leader reference does not resolve changes
\* no group, even when its members resolve; one error is recorded for the
\* leader and the next line is processed.
C10_UnresolvableLeader ==
    Loaded =>
        \A i \in 1 .. Len(last.res.lines) :
            LET parts == SplitOf(last.res.lines[i])
                before == last.res.trace[i]
                after == last.res.trace[i + 1]
            IN  (Len(parts) >= 2 /\ ~Resolvable(parts[1])) =>
                    /\ Groups(after.db) = Groups(before.db)
                    /\ after.updated_count = before.updated_count
                    /\ Len(after.errors) = Len(before.errors) + 1
                    /\ after.errors[Len(after.errors)].role = "leader"
                    /\ after.errors[Len(after.errors)].ref = parts[1]
                    /\ i < Len(last.res.lines) =>
                           LET next == SplitOf(last.res.lines[i + 1])
                               done == last.res.trace[i + 2]
                           IN  (/\ Len(next) >= 2
                                /\ Resolvable(next[1])
                                /\ Resolvable(next[2])
                                /\ RowOf(next[2]) # RowOf(next[1]))
                                  => done.db[RowOf(next[2])].group
                                         = RowOf(next[1])

\* a manifest whose first line has an unresolvable leader and resolving
\* members, and whose second line was applied
C10_Witness ==
    /\ Loaded
    /\ Len(last.res.lines) = 2
    /\ LET parts == SplitOf(last.res.lines[1])
       IN  /\ Len(parts) >= 2
           /\ ~Resolvable(parts[1])
           /\ Resolvable(parts[2])
    /\ Groups(last.res.trace[2].db) = Groups(last.pre)
    /\ Groups(store) # Groups(last.pre)

\* what a manifest line with fields parts asks for
HasLeader(parts) == Len(parts) >= 2 /\ Resolvable(parts[1])
SelfRefs(parts) ==
    {j \in 2 .. Len(parts) :
        Resolvable(parts[j]) /\ RowOf(parts[j]) = RowOf(parts[1])}
AppliedRefs(parts) ==
    {j \in 2 .. Len(parts) :
        Resolvable(parts[j]) /\ RowOf(parts[j]) # RowOf(parts[1])}
BadRefs(parts) == {j \in 2 .. Len(parts) : ~Resolvable(parts[j])}

\* C11: a manifest line that lists its leader among its members records
\* no error for that reference, does not count it in updated_members and
\* leaves the leader's group as it was (never the leader's own id).
C11_SelfReferenceGuard ==
    Loaded =>
        \A i \in 1 .. Len(last.res.lines) :
            LET parts == SplitOf(last.res.lines[i])
                before == last.res.trace[i]
                after == last.res.trace[i + 1]
                leader == RowOf(parts[1])
            IN  (HasLeader(parts) /\ SelfRefs(parts) # {}) =>
                    /\ after.db[leader].group = before.db[leader].group
                    /\ Len(after.errors) =
                           Len(before.errors) + Cardinality(BadRefs(parts))
                    /\ \A k \in (Len(before.errors) + 1) .. Len(after.errors) :
                           after.errors[k].ref # parts[1]
                    /\ after.updated_count =
                           before.updated_count + Cardinality(AppliedRefs(parts))

\* a one-line manifest that lists its leader as a member next to another
\* member that was applied
C11_Witness ==
    /\ Loaded
    /\ Len(last.res.lines) = 1
    /\ LET parts == SplitOf(last.res.lines[1])
       IN  /\ HasLeader(parts)
           /\ SelfRefs(parts) # {}
           /\ AppliedRefs(parts) # {}
           /\ store[RowOf(parts[1])].group = None
    /\ last.res.updated_members = 1

\* the same upload sent once more, against the store the first run left
SecondRun == load_groups(store, last.filename, last.content)

\* C12: running load-groups a second time with the same manifest, right
\* after the first run, leaves every group and total_citations as the
\* first run left them and returns the same updated_members and errors.
C12_LoadGroupsIdempotent ==
    Loaded =>
        LET again == SecondRun
        IN  /\ again.status = 200
            /\ again.db = store
            /\ again.updated_members = last.res.updated_members
            /\ again.errors = last.res.errors

\* a manifest that regrouped members and recorded an error, sent again
C12_Witness ==
    /\ Loaded
    /\ Groups(store) # Groups(last.pre)
    /\ last.res.updated_members > 0
    /\ last.res.errors # <<>>
    /\ SecondRun.db = store
    /\ SecondRun.updated_members = last.res.updated_members

Recomputed == last.op = "update_total_citations"

\* C13: update_total_citations with an id that no row has changes no
\* field of any row and returns the sum of the citations of the rows whose
\* group is that id.
C13_RecomputeMissingRoot ==
    (Recomputed /\ last.group_id \notin DOMAIN last.pre) =>
        /\ last.res.db = last.pre
        /\ last.res.total =
               CitationSum(last.pre, MembersOf(last.pre, last.group_id))

\* a recompute for a vanished root that still has members
C13_Witness ==
    /\ Recomputed
    /\ last.group_id \notin DOMAIN last.pre
    /\ MembersOf(last.pre, last.group_id) # {}
    /\ last.res.total > 0
    /\ last.res.db = last.pre

\* C14: update-group with an id that no row has ends in NotFound (404)
\* and leaves every row as it was.
C14_NotFound ==
    (/\ last.op = "update_group"
     /\ (last.id1 \notin DOMAIN last.pre \/ last.id2 \notin DOMAIN last.pre))
        => /\ last.res.status = 404
           /\ store = last.pre

\* update-group of an existing row with a missing one, on a store that
\* already has groups
C14_Witness ==
    /\ last.op = "update_group"
    /\ last.id1 \in DOMAIN last.pre
    /\ last.id2 \notin DOMAIN last.pre
    /\ last.res.status = 404
    /\ store = last.pre
    /\ \E id \in DOMAIN store : store[id].group # None

\* parenthesis depth after the first i characters of line
RECURSIVE DepthAfter(_, _)
DepthAfter(line, i) ==
    IF i = 0 THEN 0
    ELSE LET d == DepthAfter(line, i - 1)
         IN  IF line[i] = "(" THEN d + 1
             ELSE IF line[i] = ")" /\ d > 0 THEN d - 1
             ELSE d

\* positions of the commas at depth 0
TopCommas(line) ==
    {i \in 1 .. Len(line) : line[i] = "," /\ DepthAfter(line, i - 1) = 0}

RECURSIVE InOrder(_)
InOrder(S) ==
    IF S = {} THEN <<>>
    ELSE LET m == CHOOSE x \in S : \A y \in S : x <= y
         IN  <<m>> \o InOrder(S \ {m})

\* the trimmed, non-empty segments between consecutive top-level commas
Fields(line) ==
    LET cuts == TopCommas(line) \cup {0, Len(line) + 1}
        next(c) == CHOOSE x \in cuts : x > c /\ \A y \in cuts : y > c => x <= y
        seg(c) == Strip(SubSeq(line, c + 1, next(c) - 1))
        kept == InOrder({c \in cuts : c <= Len(line) /\ seg(c) # <<>>})
    IN  [j \in 1 .. Len(kept) |-> seg(kept[j])]

\* C15: smart_split returns the segments delimited by the commas at
\* parenthesis depth 0 (depth never below 0), each trimmed, empty ones
\* dropped; a comma inside parentheses does not split and a stray ")"
\* does not stop later top-level commas from splitting.
C15_LineSplitting ==
    last.op = "smart_split" =>
        /\ last.parts = Fields(last.line)
        /\ \A j \in 1 .. Len(last.parts) :
               last.parts[j] # <<>> /\ Strip(last.parts[j]) = last.parts[j]

\* the line "),(,)": the comma after the stray ")" splits, the comma
\* inside "(,)" does not
C15_Witness ==
    /\ last.op = "smart_split"
    /\ last.line = <<")", ",", "(", ",", ")">>
    /\ last.parts = << <<")">>, <<"(", ",", ")">> >>

\* the same rows with the same id, name, type and citations
SameIdentity(a, b) ==
    /\ DOMAIN a = DOMAIN b
    /\ \A id \in DOMAIN a :
          /\ a[id].name = b[id].name
          /\ a[id].type = b[id].type
          /\ a[id].citations = b[id].citations

\* C16: load-groups, update-group and update_total_citations leave the
\* id, name, type and citations of every row as they were; they write
\* only group and total_citations.
C16_CitationsImmutable ==
    /\ last.op \in {"load_groups", "update_group"}
          => SameIdentity(last.pre, store)
    /\ Recomputed => SameIdentity(last.pre, last.res.db)

\* a recompute that wrote a new total and nothing else
C16_Witness ==
    /\ Recomputed
    /\ last.group_id \in DOMAIN last.pre
    /\ last.res.db[last.group_id].total_citations
           # last.pre[last.group_id].total_citations
    /\ SameIdentity(last.pre, last.res.db)

\* leaders of the manifest that resolved, and those that got a member
ResolvedLeaders(lines) ==
    {RowOf(SplitOf(lines[i])[1]) :
        i \in {k \in 1 .. Len(lines) : HasLeader(SplitOf(lines[k]))}}
UpdatedLeaders(lines) ==
    {RowOf(SplitOf(lines[i])[1]) :
        i \in {k \in 1 .. Len(lines) :
                  /\ HasLeader(SplitOf(lines[k]))
                  /\ AppliedRefs(SplitOf(lines[k])) # {}}}

\* the total of row id is its citations plus those of its members
TotalIsFresh(db, id) ==
    db[id].total_citations =
        db[id].citations + CitationSum(db, MembersOf(db, id))

\* C17 as stated: load-groups recomputes the total of exactly the leaders
\* that received a member update; every other row, a resolved leader
\* without member update included, keeps its previous total.
C17_LeadersRecomputedAsStated ==
    Loaded =>
        LET leaders == UpdatedLeaders(last.res.lines)
        IN  \A id \in DOMAIN store :
            IF id \in leaders
            THEN TotalIsFresh(store, id)
            ELSE store[id].total_citations = last.pre[id].total_citations

\* C17 (amended): load-groups recomputes the total of exactly the leaders
\* that resolved on a line of at least two fields, whether or not a member
\* of the line was updated; every other row keeps its previous total.
C17_LeadersRecomputed ==
    Loaded =>
        LET leaders == ResolvedLeaders(last.res.lines)
        IN  \A id \in DOMAIN store :
            IF id \in leaders
            THEN TotalIsFresh(store, id)
            ELSE store[id].total_citations = last.pre[id].total_citations

\* a leader whose line updated no member got a new total
C17_Witness ==
    /\ Loaded
    /\ \E id \in ResolvedLeaders(last.res.lines)
                  \ UpdatedLeaders(last.res.lines) :
          /\ store[id].total_citations # last.pre[id].total_citations
          /\ TotalIsFresh(store, id)

\* C18: after a merge with loser f no row has group f, and every row that
\* pointed at f before the call points at new_group_id.
C18_LoserMembersLeave ==
    Merged =>
        /\ MembersOf(store, last.res.f) = {}
        /\ \A m \in MembersOf(last.pre, last.res.f) :
               store[m].group = TargetOf(last.pre, last.res.g)

\* C19: under merges of two different rows only, a row that is the group
\* of another row has no group itself (groups are one level deep).
C19_FlatUnderMerges ==
    \A x \in DOMAIN store, y \in DOMAIN store :
        (x # y /\ store[x].group = y) => store[y].group = None

\* the lines that list row id as a resolved member other than the leader,
\* under a resolved leader
ListingLines(lines, id) ==
    {i \in 1 .. Len(lines) :
        LET parts == SplitOf(lines[i])
        IN  /\ HasLeader(parts)
            /\ \E j \in AppliedRefs(parts) : RowOf(parts[j]) = id}

LastOf(S) == CHOOSE x \in S : \A y \in S : y <= x

\* number of member references applied by the first n lines
RECURSIVE AppliedCount(_, _)
AppliedCount(lines, n) ==
    IF n = 0 THEN 0
    ELSE LET parts == SplitOf(lines[n])
         IN  AppliedCount(lines, n - 1)
                 + (IF HasLeader(parts) THEN Cardinality(AppliedRefs(parts))
                    ELSE 0)

\* C20: after load-groups the group of a row is the leader of the last
\* line, in file order, that has a resolved leader and lists the row as a
\* resolved member other than the leader; a row never so listed keeps its
\* group.  A member reference that fails does not stop the other members
\* of its line or the later lines, and updated_members counts the member
\* references applied.
C20_ManifestOrder ==
    Loaded =>
        /\ \A id \in DOMAIN store :
               LET listing == ListingLines(last.res.lines, id)
               IN  IF listing = {}
                   THEN store[id].group = last.pre[id].group
                   ELSE store[id].group =
                            RowOf(SplitOf(
                                      last.res.lines[LastOf(listing)])[1])
        /\ last.res.updated_members
               = AppliedCount(last.res.lines, Len(last.res.lines))

\* a two-line manifest: a row listed under two different leaders ends up
\* under the second, and it is listed after a reference that failed
C20_Witness ==
    /\ Loaded
    /\ Len(last.res.lines) = 2
    /\ \E id \in DOMAIN store :
          LET first == SplitOf(last.res.lines[1])
              second == SplitOf(last.res.lines[2])
          IN  /\ ListingLines(last.res.lines, id) = {1, 2}
              /\ RowOf(first[1]) # RowOf(second[1])
              /\ store[id].group = RowOf(second[1])
              /\ \E j \in AppliedRefs(first), k \in BadRefs(first) :
                    k < j /\ RowOf(first[j]) = id
    /\ last.res.errors # <<>>

=============================================================================
